---- MODULE Spec2Model ----
(***************************************************************************)
(* Frame-streaming and pose-application pipeline of the Virtual Hat Try-On *)
(* front end: the useWebSocket hook (connection, reconnection, sendFrame), *)
(* the HatTryOn orchestrator (sampling loop, message effect) and the       *)
(* HatModel frame callback.                                                *)
(*                                                                         *)
(* JavaScript runs one task at a time, so every handler is one action.     *)
(* An await splits a function into one action per continuation.  A value   *)
(* that a callback closed over when it was created is kept in the state    *)
(* beside the callback (the interval's processVideoFrame and its           *)
(* sendFrame).                                                             *)
(***************************************************************************)
EXTENDS Integers, Sequences, FiniteSets, TLC

\* ---------------------------------------------------------------- bounds
MaxSockets == 2      \* WebSocket objects alive (not yet CLOSED) at once
MaxTimers == 2       \* reconnect timers pending at once
MaxLoopTimers == 1   \* the same, while the sampling loop is explored
MaxInFlight == 2     \* processVideoFrame invocations / frames pending at once
MaxStreams == 2      \* media streams acquired and not stopped at once

\* ------------------------------------------------------------- constants
RECONNECT_DELAY == 3000
MAX_RECONNECT_ATTEMPTS == 5
NORMAL_CLOSURE == 1000

SocketIds == 1..MaxSockets
TimerIds == 1..MaxTimers

\* Close codes a close event can carry: 1000 (normal), 1001 (going away,
\* a clean close with another code), 1006 (no close frame was received).
CloseCodes == {1000, 1001, 1006}

\* A socket that never reached OPEN received no close frame: its close
\* event carries 1006, also when close(1000) was called on it locally.
CodesFor(sock) == IF sock.wasOpen THEN CloseCodes ELSE {1006}

VARIABLES
    \* useWebSocket: React state
    isConnected, isConnecting, error, lastMessage,
    \* useWebSocket: refs
    wsRef, reconnectTimeoutRef, reconnectAttemptsRef,
    \* the browser: WebSocket objects and pending setTimeout timers
    sockets, timers,
    \* HatTryOn
    mounted, isStreaming, isProcessing, faceDetected, hatPose,
    msgEffectPending, loop, capturing, converting,
    \* useWebcam: React state, and the await a startCamera call stands at
    isLoading, cameraError, stream, starting,
    \* the browser: the acquired media streams whose tracks are live
    tracks,
    \* HatModel
    model, group,
    \* history: a frame callback ran since the props of HatModel last changed
    frameSince,
    \* history: the scheduled delays of the current run of abnormal closes
    streak,
    \* history: what sendFrame did, in the state right after its call
    sendFrameLog,
    \* history: the counter an open event found, in the state right after it
    openedFrom,
    \* history: disconnect() was called and no connect() from outside since
    userClosed,
    \* history: a close set a reconnect timer and no socket was created since
    owed

chanVars == <<isConnected, isConnecting, error, wsRef, reconnectTimeoutRef,
              reconnectAttemptsRef, sockets, timers>>
poseVars == <<lastMessage, faceDetected, hatPose, msgEffectPending, model, group>>
loopVars == <<mounted, isStreaming, isProcessing, loop, capturing, converting>>
camVars == <<isLoading, cameraError, stream, starting, tracks>>
histVars == <<frameSince, streak, userClosed, owed>>
vars == <<chanVars, poseVars, loopVars, camVars, histVars, sendFrameLog, openedFrom>>

\* ------------------------------------------------------------ error state
NoError == [kind |-> "null", attempt |-> 0, delaySec |-> 0]
ErrConnection == [kind |-> "WebSocket connection error", attempt |-> 0, delaySec |-> 0]
ErrTerminal == [kind |-> "Failed to connect to backend", attempt |-> 0, delaySec |-> 0]
ErrReconnecting(attempt, delay) ==
    [kind |-> "Connection lost. Reconnecting", attempt |-> attempt,
     delaySec |-> delay \div 1000]

\* ----------------------------------------------- the hook as one record
\* closeCalled: ws.close() was called on it (by disconnect()).
NoSocket == [readyState |-> "NONE", wasOpen |-> FALSE, closeCalled |-> FALSE]

Ch == [isConnected |-> isConnected, isConnecting |-> isConnecting,
       error |-> error, wsRef |-> wsRef,
       reconnectTimeoutRef |-> reconnectTimeoutRef,
       reconnectAttemptsRef |-> reconnectAttemptsRef,
       sockets |-> sockets, timers |-> timers]

SetCh(c) ==
    /\ isConnected' = c.isConnected
    /\ isConnecting' = c.isConnecting
    /\ error' = c.error
    /\ wsRef' = c.wsRef
    /\ reconnectTimeoutRef' = c.reconnectTimeoutRef
    /\ reconnectAttemptsRef' = c.reconnectAttemptsRef
    /\ sockets' = c.sockets
    /\ timers' = c.timers

Live(c) == {s \in SocketIds : c.sockets[s].readyState # "NONE"}
\* timers: the pending setTimeout timers in the order they were set, each
\* with the id setTimeout returned and its delay in ms.
Pending(c) == {c.timers[i].id : i \in 1..Len(c.timers)}
clearTimeout(tms, t) == SelectSeq(tms, LAMBDA x : x.id # t)
FreeSocket(c) == CHOOSE s \in SocketIds \ Live(c) : \A r \in SocketIds \ Live(c) : s <= r
FreeTimer(c) == CHOOSE t \in TimerIds \ Pending(c) : \A r \in TimerIds \ Pending(c) : t <= r

\* wsRef.current?.readyState === WebSocket.OPEN
RefOpen(c) == c.wsRef # 0 /\ c.sockets[c.wsRef].readyState = "OPEN"

\* connect() creates a socket unless the current one is OPEN.
ConnectCreates(c) == ~RefOpen(c)
CanConnect(c) == ConnectCreates(c) => Live(c) # SocketIds

Pow2(n) == 2 ^ n

\* ------------------------------------------------------- useWebSocket
\* A variant of connect() that sets its flags before it looks at the socket.
connectFlagsFirst(c) ==
    IF RefOpen(c) THEN [c EXCEPT !.isConnecting = TRUE, !.error = NoError]
    ELSE LET ws == FreeSocket(c) IN
         [c EXCEPT !.isConnecting = TRUE,
                   !.error = NoError,
                   !.sockets[ws] = [readyState |-> "CONNECTING", wasOpen |-> FALSE,
                                    closeCalled |-> FALSE],
                   !.wsRef = ws]

connect(c) ==
    IF RefOpen(c) THEN c
    ELSE LET ws == FreeSocket(c) IN
         [c EXCEPT !.isConnecting = TRUE,
                   !.error = NoError,
                   !.sockets[ws] = [readyState |-> "CONNECTING", wasOpen |-> FALSE,
                                    closeCalled |-> FALSE],
                   !.wsRef = ws]

\* A variant of onopen that leaves the counter as it is.
onopenKeepsCounter(c) ==
    [c EXCEPT !.isConnected = TRUE, !.isConnecting = FALSE, !.error = NoError]

onopen(c) ==
    [c EXCEPT !.isConnected = TRUE,
              !.isConnecting = FALSE,
              !.error = NoError,
              !.reconnectAttemptsRef = 0]

\* A variant of the test of line 353 that ignores the close code.
SchedulesAnyCode(c, code) == c.reconnectAttemptsRef < MAX_RECONNECT_ATTEMPTS

\* event.code !== 1000 && reconnectAttemptsRef.current < MAX_RECONNECT_ATTEMPTS
Schedules(c, code) ==
    code # NORMAL_CLOSURE /\ c.reconnectAttemptsRef < MAX_RECONNECT_ATTEMPTS

\* A variant of the delay that grows linearly.
ReconnectDelayLinear(attempts) == RECONNECT_DELAY * (attempts + 1)

\* RECONNECT_DELAY * Math.pow(2, reconnectAttemptsRef.current)
ReconnectDelay(attempts) == RECONNECT_DELAY * Pow2(attempts)

onclose(c, code) ==
    LET c1 == [c EXCEPT !.isConnected = FALSE,
                        !.isConnecting = FALSE,
                        !.wsRef = 0]
    IN  IF Schedules(c1, code)
        THEN LET delay == ReconnectDelay(c1.reconnectAttemptsRef)
                 t == FreeTimer(c1)
             IN  [c1 EXCEPT !.error = ErrReconnecting(c1.reconnectAttemptsRef + 1, delay),
                            !.timers = Append(@, [id |-> t, delay |-> delay]),
                            !.reconnectTimeoutRef = t]
        ELSE IF c1.reconnectAttemptsRef >= MAX_RECONNECT_ATTEMPTS
        THEN [c1 EXCEPT !.error = ErrTerminal]
        ELSE c1

onerror(c) ==
    [c EXCEPT !.error = ErrConnection, !.isConnecting = FALSE]

\* The reconnect timer's callback.
\* A variant of the timer callback that counts the attempt and stops there.
reconnectCallbackIdle(c) == [c EXCEPT !.reconnectAttemptsRef = @ + 1]

reconnectCallback(c) ==
    connect([c EXCEPT !.reconnectAttemptsRef = @ + 1])

\* ws.close(1000, ...): a CONNECTING or OPEN socket becomes CLOSING; its
\* close event comes later.
CloseSocket(sock) ==
    IF sock.readyState \in {"CONNECTING", "OPEN"}
    THEN [sock EXCEPT !.readyState = "CLOSING", !.closeCalled = TRUE]
    ELSE sock

disconnect(c) ==
    LET c1 == IF c.reconnectTimeoutRef # 0
              THEN [c EXCEPT !.timers = clearTimeout(@, c.reconnectTimeoutRef),
                             !.reconnectTimeoutRef = 0]
              ELSE c
        c2 == IF c1.wsRef # 0
              THEN [c1 EXCEPT !.sockets[c1.wsRef] = CloseSocket(@),
                              !.wsRef = 0]
              ELSE c1
    IN  [c2 EXCEPT !.isConnected = FALSE,
                   !.isConnecting = FALSE,
                   !.error = NoError,
                   !.reconnectAttemptsRef = 0]

\* A variant of sendFrame without the else branch: a frame that finds the
\* socket not OPEN is dropped and nothing else happens.
sendFrameDrops(c, capConnecting) ==
    IF RefOpen(c) THEN [ch |-> c, started |-> 1] ELSE [ch |-> c, started |-> 0]

\* sendFrame as the closure that captured isConnecting = capConnecting.
\* Its result: the hook, and the number of blob-to-buffer conversions it
\* started (imageData.arrayBuffer(), whose continuation calls ws.send).
sendFrame(c, capConnecting) ==
    IF RefOpen(c) THEN [ch |-> c, started |-> 1]
    ELSE IF ~capConnecting THEN [ch |-> connect(c), started |-> 0]
    ELSE [ch |-> c, started |-> 0]

\* sendFrame reaches connect() and connect() creates a socket.
SendFrameConnects(c, capConnecting) == ~RefOpen(c) /\ ~capConnecting

\* ------------------------------------------------------------------ Init
NotOpened == -1

\* ------------------------------------------------- HatModel: the transform
\* Numbers are fixed point: a pose's position, rotation and scale and the
\* group's position are in thousandths; the group's rotation is in
\* ten-thousandths (a thousandth times 0.8) and its scale in
\* hundred-thousandths (a thousandth times a hundredth).
NullPose == [null |-> TRUE]
PositionXs == {0, 500, 750}
PositionYs == {250, 500, 1000}
PositionZs == {-100, 0, 50}
Rotations == {<<0, 0, 0>>, <<100, -200, 50>>}
Scales == {1000, 2000}
\* hatPose.modelType, "" when the message carries none.
ModelTypes == {"", "default", "large_hat", "small_hat", "large"}
PoseInputs ==
    [position : [x : PositionXs, y : PositionYs, z : PositionZs],
     rotation : Rotations, scale : Scales, modelType : ModelTypes]

\* const x = (hatPose.position.x - 0.5) * 4
planeX(px) == (px - 500) * 4
\* A variant of the vertical mapping that flips the axis.
planeYFlipped(py) == (500 - py) * 3
\* const y = (hatPose.position.y - 0.5) * 3
planeY(py) == (py - 500) * 3
\* const modelType = hatPose.modelType || 'default'
modelTypeOf(h) == IF h.modelType = "" THEN "default" ELSE h.modelType
\* A variant of the offset that reads the switch whatever model is loaded.
yOffsetByType(modelType, isGLBModel) ==
    IF modelType = "large_hat" THEN -1000 ELSE -200
\* yOffset, and the factor of scale in hundredths, by model and modelType.
yOffset(modelType, isGLBModel) ==
    IF isGLBModel
    THEN IF modelType = "large_hat" THEN -1000
         ELSE IF modelType = "small_hat" THEN -200
         ELSE -200
    ELSE -300
scaleFactor(modelType, isGLBModel) ==
    IF isGLBModel
    THEN IF modelType = "large_hat" THEN 80
         ELSE IF modelType = "small_hat" THEN 2
         ELSE 50
    ELSE 25
\* A variant of the depth that is not clamped.
zPositionRaw(z) == z
\* const zPosition = Math.max(z, 0)
zPosition(z) == IF z > 0 THEN z ELSE 0
\* A variant of the damping that passes the rotation through.
dampNone(r) == r * 10
\* hatPose.rotation.x * 0.8, in ten-thousandths.
damp(r) == r * 8
\* A new THREE.Group: shown, empty, at the origin, unrotated, scale 1.
NewGroup ==
    [visible |-> TRUE, hasModel |-> FALSE, position |-> <<0, 0, 0>>,
     rotation |-> <<0, 0, 0>>, scale |-> 100000]
\* What the body of the useFrame callback writes to the group for pose h.
applyPose(h, isGLBModel) ==
    [visible |-> TRUE, hasModel |-> TRUE,
     position |-> <<planeX(h.position.x),
                    planeY(h.position.y) + yOffset(modelTypeOf(h), isGLBModel),
                    zPosition(h.position.z)>>,
     rotation |-> <<damp(h.rotation[1]), damp(h.rotation[2]), damp(h.rotation[3])>>,
     scale |-> h.scale * scaleFactor(modelTypeOf(h), isGLBModel)]

\* Between hook states c and d a socket was created; a timer was set.
Created(c, d) ==
    \E s \in SocketIds : /\ c.sockets[s].readyState = "NONE"
                          /\ d.sockets[s].readyState = "CONNECTING"
TimerSet(c, d) == Len(d.timers) > Len(c.timers)

\* ------------------------------------------------- useWebcam: the errors
NoCameraError == [text |-> "null", detail |-> ""]
\* What startCamera may catch: a DOMException or another error, by name.
ErrorNames == {"NotFoundError", "NotAllowedError", "NotReadableError",
               "OverconstrainedError", "AbortError", "TypeError"}
CameraFailures == [dom : BOOLEAN, name : ErrorNames]
\* A variant with one message for every failure.
cameraErrorGeneric(err) ==
    [text |-> "An unexpected error occurred while accessing the camera", detail |-> ""]
\* The message the catch block sets; err.message is taken to be the name.
cameraErrorFor(err) ==
    IF err.dom
    THEN CASE err.name = "NotFoundError" ->
                [text |-> "No camera found on your device", detail |-> ""]
           [] err.name = "NotAllowedError" ->
                [text |-> "Camera access denied. Please allow camera permissions and refresh.",
                 detail |-> ""]
           [] err.name = "NotReadableError" ->
                [text |-> "Camera is already in use by another application", detail |-> ""]
           [] err.name = "OverconstrainedError" ->
                [text |-> "Camera does not support the required constraints", detail |-> ""]
           [] OTHER -> [text |-> "Failed to access camera: ", detail |-> err.name]
    ELSE [text |-> "An unexpected error occurred while accessing the camera", detail |-> ""]

Init ==
    /\ isConnected = FALSE
    /\ isConnecting = FALSE
    /\ error = NoError
    /\ lastMessage = [present |-> FALSE, face_detected |-> FALSE, hat |-> NullPose]
    /\ wsRef = 0
    /\ reconnectTimeoutRef = 0
    /\ reconnectAttemptsRef = 0
    /\ sockets = [s \in SocketIds |-> NoSocket]
    /\ timers = <<>>
    /\ mounted = "pre"
    /\ isStreaming = FALSE
    /\ isProcessing = FALSE
    /\ faceDetected = FALSE
    /\ hatPose = NullPose
    /\ msgEffectPending = FALSE
    /\ loop = [deps |-> <<FALSE, FALSE>>, capProcessing |-> FALSE, capConnecting |-> FALSE]
    /\ capturing = [b \in BOOLEAN |-> 0]
    /\ converting = 0
    /\ model = "none"
    /\ group = NewGroup
    /\ frameSince = FALSE
    /\ streak = [on |-> TRUE, delays |-> <<>>]
    /\ sendFrameLog = "none"
    /\ openedFrom = NotOpened
    /\ userClosed = FALSE
    /\ owed = FALSE
    /\ isLoading = FALSE
    /\ cameraError = NoCameraError
    /\ stream = FALSE
    /\ starting = "idle"
    /\ tracks = 0

\* ------------------------------------------------------- history: streak
\* A streak is a run of closes with no Open and no call from outside in
\* between, begun with the counter at 0, no timer pending and one socket.
StreakOff == [on |-> FALSE, delays |-> <<>>]
StreakAfterConnect(c) ==
    [on |-> c.reconnectAttemptsRef = 0 /\ Pending(c) = {} /\ Live(c) = {},
     delays |-> <<>>]
StreakAfterOpen(c, s) ==
    [on |-> Pending(c) = {} /\ Live(c) = {s}, delays |-> <<>>]
StreakAfterClose(c, code) ==
    IF code = NORMAL_CLOSURE \/ ~streak.on THEN StreakOff
    ELSE [streak EXCEPT !.delays =
            Append(@, IF Schedules(c, code)
                      THEN ReconnectDelay(c.reconnectAttemptsRef) ELSE 0)]

\* --------------------------------------------------- HatTryOn: lifecycle
\* useEffect(() => { connectWS(); return () => disconnectWS(); }, ...)
Mount ==
    /\ sendFrameLog' = "none"
    /\ openedFrom' = NotOpened
    /\ UNCHANGED camVars
    /\ mounted = "pre"
    /\ mounted' = "mounted"
    /\ SetCh(connect(Ch))
    /\ streak' = StreakAfterConnect(Ch)
    /\ userClosed' = FALSE
    /\ owed' = FALSE
    /\ UNCHANGED <<poseVars, frameSince, isStreaming, isProcessing, loop, capturing, converting>>

NoLoop == [deps |-> <<FALSE, FALSE>>, capProcessing |-> FALSE, capConnecting |-> FALSE]

\* if (stream) { stream.getTracks().forEach(track => track.stop()) } with
\* the stream of stopCamera's closure (true when it is not null).
stopTracks(closureStream, live) == IF closureStream /\ live > 0 THEN live - 1 ELSE live

\* Every effect's cleanup: the interval is cleared, disconnect() runs (the
\* component's cleanup and the hook's own), and the stopCamera of the first
\* render runs, in whose closure stream is null.
Unmount ==
    /\ sendFrameLog' = "none"
    /\ openedFrom' = NotOpened
    /\ mounted = "mounted"
    /\ mounted' = "unmounted"
    /\ SetCh(disconnect(disconnect(Ch)))
    /\ loop' = NoLoop
    /\ isStreaming' = FALSE
    /\ streak' = StreakOff
    /\ userClosed' = TRUE
    /\ owed' = FALSE
    /\ cameraError' = NoCameraError
    /\ tracks' = stopTracks(FALSE, tracks)
    /\ UNCHANGED <<poseVars, frameSince, isProcessing, capturing, converting,
                   isLoading, stream, starting>>

\* The connection button: onClick={isConnected ? disconnectWS : connectWS},
\* disabled={isConnecting}.
ToggleConnection ==
    /\ sendFrameLog' = "none"
    /\ openedFrom' = NotOpened
    /\ UNCHANGED camVars
    /\ mounted = "mounted"
    /\ ~isConnecting
    /\ IF isConnected
       THEN /\ SetCh(disconnect(Ch))
            /\ streak' = StreakOff
            /\ userClosed' = TRUE
            /\ owed' = FALSE
       ELSE /\ CanConnect(Ch)
            /\ SetCh(connect(Ch))
            /\ streak' = IF ConnectCreates(Ch) THEN StreakAfterConnect(Ch) ELSE streak
            /\ userClosed' = FALSE
            /\ owed' = (owed /\ ~Created(Ch, connect(Ch)))
    /\ UNCHANGED <<poseVars, frameSince, loopVars>>

\* ------------------------------------------------------------ useWebcam
\* startCamera up to its first await: getUserMedia is asked for. The button
\* is onClick={isStreaming ? stopCamera : startCamera}, disabled={isCameraLoading}.
StartCameraClick ==
    /\ sendFrameLog' = "none"
    /\ openedFrom' = NotOpened
    /\ mounted = "mounted"
    /\ ~isStreaming
    /\ ~isLoading
    /\ starting = "idle"
    /\ isLoading' = TRUE
    /\ cameraError' = NoCameraError
    /\ starting' = "getUserMedia"
    /\ UNCHANGED <<chanVars, poseVars, loopVars, histVars, stream, tracks>>

\* getUserMedia resolves: setStream; with the video element there, the call
\* waits for the metadata and play(); without it the call ends.
GetUserMediaResolved ==
    /\ sendFrameLog' = "none"
    /\ openedFrom' = NotOpened
    /\ starting = "getUserMedia"
    /\ tracks < MaxStreams
    /\ stream' = TRUE
    /\ tracks' = tracks + 1
    /\ IF mounted = "mounted"
       THEN starting' = "play" /\ isLoading' = isLoading
       ELSE starting' = "idle" /\ isLoading' = FALSE
    /\ UNCHANGED <<chanVars, poseVars, loopVars, histVars, cameraError>>

\* The catch and finally blocks of startCamera on err.
startCameraFailed(err) ==
    /\ cameraError' = cameraErrorFor(err)
    /\ isLoading' = FALSE
    /\ starting' = "idle"
    /\ UNCHANGED <<chanVars, poseVars, loopVars, histVars, stream, tracks>>

\* getUserMedia rejects with err.
GetUserMediaRejected(err) ==
    /\ sendFrameLog' = "none"
    /\ openedFrom' = NotOpened
    /\ starting = "getUserMedia"
    /\ startCameraFailed(err)

\* play() resolves: setIsStreaming(true), and finally.
PlayResolved ==
    /\ sendFrameLog' = "none"
    /\ openedFrom' = NotOpened
    /\ starting = "play"
    /\ mounted = "mounted"
    /\ isStreaming' = TRUE
    /\ isLoading' = FALSE
    /\ starting' = "idle"
    /\ UNCHANGED <<chanVars, poseVars, histVars, mounted, isProcessing, loop,
                   capturing, converting, cameraError, stream, tracks>>

\* play() rejects with err, or videoRef.current is gone by then (a TypeError).
PlayRejected(err) ==
    /\ sendFrameLog' = "none"
    /\ openedFrom' = NotOpened
    /\ starting = "play"
    /\ startCameraFailed(err)

\* A run of startCamera in which every await resolves, taken as one step.
StartCamera ==
    /\ sendFrameLog' = "none"
    /\ openedFrom' = NotOpened
    /\ mounted = "mounted"
    /\ ~isStreaming
    /\ ~isLoading
    /\ starting = "idle"
    /\ tracks < MaxStreams
    /\ isStreaming' = TRUE
    /\ cameraError' = NoCameraError
    /\ stream' = TRUE
    /\ tracks' = tracks + 1
    /\ UNCHANGED <<chanVars, poseVars, frameSince, mounted, isProcessing, loop, capturing,
                   converting, streak, userClosed, owed, isLoading, starting>>

\* stopCamera from the button: the tracks of this render's stream are stopped.
StopCamera ==
    /\ sendFrameLog' = "none"
    /\ openedFrom' = NotOpened
    /\ mounted = "mounted"
    /\ isStreaming
    /\ ~isLoading
    /\ isStreaming' = FALSE
    /\ tracks' = stopTracks(stream, tracks)
    /\ stream' = FALSE
    /\ cameraError' = NoCameraError
    /\ UNCHANGED <<chanVars, poseVars, frameSince, mounted, isProcessing, loop, capturing,
                   converting, streak, userClosed, owed, isLoading, starting>>

\* ------------------------------------------------ the browser: sockets
SocketOpen(s) ==
    /\ sendFrameLog' = "none"
    /\ openedFrom' = reconnectAttemptsRef
    /\ UNCHANGED camVars
    /\ sockets[s].readyState = "CONNECTING"
    /\ LET c0 == [Ch EXCEPT !.sockets[s] = [@ EXCEPT !.readyState = "OPEN", !.wasOpen = TRUE]]
       IN  /\ SetCh(onopen(c0))
           /\ streak' = StreakAfterOpen(c0, s)
           /\ UNCHANGED <<userClosed, owed>>
    /\ UNCHANGED <<poseVars, frameSince, loopVars>>

\* The server starts the closing handshake: readyState becomes CLOSING
\* a task before the close event.
SocketClosingStarted(s) ==
    /\ sendFrameLog' = "none"
    /\ openedFrom' = NotOpened
    /\ UNCHANGED camVars
    /\ sockets[s].readyState = "OPEN"
    /\ sockets' = [sockets EXCEPT ![s].readyState = "CLOSING"]
    /\ UNCHANGED <<isConnected, isConnecting, error, wsRef, reconnectTimeoutRef,
                   reconnectAttemptsRef, timers, poseVars, frameSince, loopVars, streak, userClosed, owed>>

\* The connection is closed: readyState CLOSED, an error event first when
\* no close frame was received (1006), then the close event.  A close that
\* would set one timer more than maxTimers is left unexplored.
SocketCloseWithin(s, code, maxTimers) ==
    /\ sendFrameLog' = "none"
    /\ openedFrom' = NotOpened
    /\ UNCHANGED camVars
    /\ sockets[s].readyState # "NONE"
    /\ code \in CodesFor(sockets[s])
    /\ LET c0 == [Ch EXCEPT !.sockets[s] = NoSocket]
           c1 == IF code = 1006 THEN onerror(c0) ELSE c0
       IN  /\ Schedules(c1, code) => Len(c1.timers) < maxTimers
           /\ SetCh(onclose(c1, code))
           /\ streak' = StreakAfterClose(c1, code)
           /\ owed' = (owed \/ TimerSet(c1, onclose(c1, code)))
           /\ UNCHANGED userClosed
    /\ UNCHANGED <<poseVars, frameSince, loopVars>>

SocketClose(s, code) == SocketCloseWithin(s, code, MaxTimers)

\* A timer fires when its delay has passed: not before a timer that was
\* set earlier with a delay no longer than its own.
Due(tms, i) == \A j \in 1..(i - 1) : tms[j].delay > tms[i].delay

TimerFire(t) ==
    /\ sendFrameLog' = "none"
    /\ openedFrom' = NotOpened
    /\ UNCHANGED camVars
    /\ \E i \in 1..Len(timers) : timers[i].id = t /\ Due(timers, i)
    /\ LET c0 == [Ch EXCEPT !.timers = clearTimeout(@, t)]
       IN  /\ CanConnect(c0)
           /\ SetCh(reconnectCallback(c0))
           /\ owed' = (owed /\ ~Created(c0, reconnectCallback(c0)))
    /\ UNCHANGED <<poseVars, frameSince, loopVars, streak, userClosed>>

\* ------------------------------------------- HatTryOn: the sampling loop
InFlight == capturing[TRUE] + capturing[FALSE] + converting

\* useEffect(..., [isStreaming, isConnected]): when a dependency changed,
\* the previous interval is cleared and, with both true, a new one is set
\* on this render's processVideoFrame, which closes over this render's
\* isProcessing and sendFrame (and so this render's isConnecting).
LoopEffect ==
    /\ sendFrameLog' = "none"
    /\ openedFrom' = NotOpened
    /\ UNCHANGED camVars
    /\ mounted = "mounted"
    /\ loop.deps # <<isStreaming, isConnected>>
    /\ loop' = IF isStreaming /\ isConnected
               THEN [deps |-> <<TRUE, TRUE>>, capProcessing |-> isProcessing,
                     capConnecting |-> isConnecting]
               ELSE [NoLoop EXCEPT !.deps = <<isStreaming, isConnected>>]
    /\ UNCHANGED <<chanVars, poseVars, frameSince, mounted, isStreaming, isProcessing,
                   capturing, converting, streak, userClosed, owed>>

IntervalSet == loop.deps = <<TRUE, TRUE>>

\* frameRateLimiterRef.current.shouldProcessFrame(): true when at least
\* 1/targetRate has passed since the last allowed tick; ticks are 50 ms
\* apart and the target is 20 per second, so either answer can come.
shouldProcessFrame == BOOLEAN

\* The guard of processVideoFrame as the interval's closure sees it: its
\* isStreaming and isConnected are the true values the effect ran with,
\* videoRef.current is the mounted video element.
TickPasses(capProcessing, allow) == ~capProcessing /\ allow

\* One firing of the interval: processVideoFrame up to its await.
Tick ==
    /\ sendFrameLog' = "none"
    /\ openedFrom' = NotOpened
    /\ UNCHANGED camVars
    /\ IntervalSet
    /\ \E allow \in shouldProcessFrame :
         IF TickPasses(loop.capProcessing, allow)
         THEN /\ InFlight < MaxInFlight
              /\ isProcessing' = TRUE
              /\ capturing' = [capturing EXCEPT ![loop.capConnecting] = @ + 1]
         ELSE UNCHANGED <<isProcessing, capturing>>
    /\ UNCHANGED <<chanVars, poseVars, frameSince, mounted, isStreaming, loop, converting, streak, userClosed, owed>>

\* captureFrameAsBlob settles: a blob, null (source not ready) or a throw.
CaptureOutcomes == {"blob", "null", "throw"}

\* processVideoFrame after its await: sendFrame(frameBlob), then finally.
CaptureDone(cap, outcome) ==
    /\ openedFrom' = NotOpened
    /\ UNCHANGED camVars
    /\ capturing[cap] > 0
    /\ capturing' = [capturing EXCEPT ![cap] = @ - 1]
    /\ isProcessing' = FALSE
    /\ IF outcome = "blob"
       THEN /\ SendFrameConnects(Ch, cap) => CanConnect(Ch)
            /\ SetCh(sendFrame(Ch, cap).ch)
            /\ converting' = converting + sendFrame(Ch, cap).started
            /\ streak' = IF SendFrameConnects(Ch, cap) THEN StreakOff ELSE streak
            /\ owed' = (owed /\ ~Created(Ch, sendFrame(Ch, cap).ch))
            /\ UNCHANGED userClosed
            /\ sendFrameLog' = IF sendFrame(Ch, cap).started > 0 THEN "started"
                               ELSE IF sendFrame(Ch, cap).ch # Ch THEN "connect"
                               ELSE "dropped"
       ELSE /\ UNCHANGED <<chanVars, converting, streak, userClosed, owed>>
            /\ sendFrameLog' = "none"
    /\ UNCHANGED <<poseVars, frameSince, mounted, isStreaming, loop>>

\* imageData.arrayBuffer() settles: .then sends when the socket is OPEN,
\* .catch logs.  ws.send changes nothing the hook keeps.
ConvertDone(resolved) ==
    /\ sendFrameLog' = "none"
    /\ openedFrom' = NotOpened
    /\ UNCHANGED camVars
    /\ converting > 0
    /\ converting' = converting - 1
    /\ UNCHANGED <<chanVars, poseVars, frameSince, mounted, isStreaming, isProcessing,
                   loop, capturing, streak, userClosed, owed>>

\* ------------------------------------------------------ the pose pipeline
NoMessage == [present |-> FALSE, face_detected |-> FALSE, hat |-> NullPose]
\* The poses the pipeline is explored with: the centre of the plane with
\* no modelType, and an off-centre pose behind the plane for a large hat.
Poses ==
    {[position |-> [x |-> 500, y |-> 500, z |-> 50], rotation |-> <<0, 0, 0>>,
      scale |-> 1000, modelType |-> ""],
     [position |-> [x |-> 750, y |-> 250, z |-> -100], rotation |-> <<100, -200, 50>>,
      scale |-> 2000, modelType |-> "large_hat"]}
Messages == [present : {TRUE}, face_detected : BOOLEAN, hat : {NullPose} \cup Poses]

\* A variant that keeps the first message it was given.
onmessageKeepsFirst(last, m) == IF last.present THEN last ELSE m
\* What ws.onmessage passes to setLastMessage when the text parses to m.
onmessage(last, m) == m

\* ws.onmessage with text that parses to message m.
SocketMessage(s, m) ==
    /\ sendFrameLog' = "none"
    /\ openedFrom' = NotOpened
    /\ UNCHANGED camVars
    /\ sockets[s].readyState \in {"OPEN", "CLOSING"}
    /\ sockets[s].wasOpen
    /\ lastMessage' = onmessage(lastMessage, m)
    /\ msgEffectPending' = TRUE
    /\ UNCHANGED <<chanVars, loopVars, faceDetected, hatPose, model, group, frameSince, streak, userClosed, owed>>

\* ws.onmessage with text JSON.parse throws on: logged, nothing set.
SocketGarbage(s) ==
    /\ sockets[s].readyState \in {"OPEN", "CLOSING"}
    /\ sockets[s].wasOpen
    /\ sendFrameLog' = "none"
    /\ openedFrom' = NotOpened
    /\ UNCHANGED camVars
    /\ UNCHANGED <<chanVars, poseVars, loopVars, histVars>>

\* A variant that takes the hat whenever the message carries one.
hatPoseOfHat(m) == m.hat
\* The pose the effect sets for message m: its hat when a face was detected
\* and the hat is there, null otherwise.
hatPoseOf(m) ==
    IF m.face_detected /\ m.hat # NullPose THEN m.hat ELSE NullPose

\* useEffect(..., [lastMessage])
MessageEffect ==
    /\ sendFrameLog' = "none"
    /\ openedFrom' = NotOpened
    /\ UNCHANGED camVars
    /\ mounted = "mounted"
    /\ msgEffectPending
    /\ msgEffectPending' = FALSE
    /\ faceDetected' = lastMessage.face_detected
    /\ hatPose' = hatPoseOf(lastMessage)
    /\ frameSince' = FALSE
    /\ UNCHANGED <<chanVars, loopVars, lastMessage, model, group, streak, userClosed, owed>>

\* HatModel's loading effect: the GLB scene, or the procedural fallback.
ModelLoaded(kind) ==
    /\ sendFrameLog' = "none"
    /\ openedFrom' = NotOpened
    /\ UNCHANGED camVars
    /\ mounted = "mounted"
    /\ model = "none"
    /\ model' = kind
    /\ frameSince' = FALSE
    /\ UNCHANGED <<chanVars, loopVars, lastMessage, faceDetected, hatPose,
                   msgEffectPending, group, streak, userClosed, owed>>

\* HatModel's useFrame callback, with visible = faceDetected (HatScene).
useFrame(g) ==
    IF hatPose # NullPose /\ faceDetected /\ model # "none"
    THEN applyPose(hatPose, model = "glb")
    ELSE g

Frame ==
    /\ sendFrameLog' = "none"
    /\ openedFrom' = NotOpened
    /\ UNCHANGED camVars
    /\ mounted = "mounted"
    /\ group' = useFrame(group)
    /\ frameSince' = TRUE
    /\ UNCHANGED <<chanVars, loopVars, lastMessage, faceDetected, hatPose,
                   msgEffectPending, model, streak, userClosed, owed>>

\* ------------------------------------------------------------------ Next
Next ==
    \/ Mount
    \/ Unmount
    \/ ToggleConnection
    \/ StartCamera
    \/ StartCameraClick
    \/ GetUserMediaResolved
    \/ \E err \in CameraFailures : GetUserMediaRejected(err)
    \/ PlayResolved
    \/ \E err \in CameraFailures : PlayRejected(err)
    \/ StopCamera
    \/ \E s \in SocketIds : SocketOpen(s)
    \/ \E s \in SocketIds : SocketClosingStarted(s)
    \/ \E s \in SocketIds, code \in CloseCodes : SocketClose(s, code)
    \/ \E t \in TimerIds : TimerFire(t)
    \/ LoopEffect
    \/ Tick
    \/ \E cap \in BOOLEAN, outcome \in CaptureOutcomes : CaptureDone(cap, outcome)
    \/ \E resolved \in BOOLEAN : ConvertDone(resolved)
    \/ \E s \in SocketIds, m \in Messages : SocketMessage(s, m)
    \/ \E s \in SocketIds : SocketGarbage(s)
    \/ MessageEffect
    \/ \E kind \in {"glb", "fallback"} : ModelLoaded(kind)
    \/ Frame

Spec == Init /\ [][Next]_vars

NextChan ==
    \/ Mount
    \/ Unmount
    \/ ToggleConnection
    \/ \E s \in SocketIds : SocketOpen(s)
    \/ \E s \in SocketIds : SocketClosingStarted(s)
    \/ \E s \in SocketIds, code \in CloseCodes : SocketClose(s, code)
    \/ \E t \in TimerIds : TimerFire(t)
SpecChan == Init /\ [][NextChan]_vars

\* The channel with its timers firing: a callback passed to setTimeout runs
\* once its delay has passed.
SpecRetry == Init /\ [][NextChan]_vars /\ WF_vars(\E t \in TimerIds : TimerFire(t))

\* The sampling loop over the channel, one reconnect timer at a time.
NextLoop ==
    \/ Mount
    \/ Unmount
    \/ ToggleConnection
    \/ \E s \in SocketIds : SocketOpen(s)
    \/ \E s \in SocketIds : SocketClosingStarted(s)
    \/ \E s \in SocketIds, code \in CloseCodes : SocketCloseWithin(s, code, MaxLoopTimers)
    \/ \E t \in TimerIds : TimerFire(t)
    \/ StartCamera
    \/ StopCamera
    \/ LoopEffect
    \/ Tick
    \/ \E cap \in BOOLEAN, outcome \in CaptureOutcomes : CaptureDone(cap, outcome)
    \/ \E resolved \in BOOLEAN : ConvertDone(resolved)
SpecLoop == Init /\ [][NextLoop]_vars

\* The camera next to one connection.
NextCam ==
    \/ Mount
    \/ Unmount
    \/ ToggleConnection
    \/ \E s \in SocketIds : SocketOpen(s)
    \/ StartCameraClick
    \/ GetUserMediaResolved
    \/ \E err \in CameraFailures : GetUserMediaRejected(err)
    \/ PlayResolved
    \/ \E err \in CameraFailures : PlayRejected(err)
    \/ StopCamera
SpecCam == Init /\ [][NextCam]_vars

\* The pose pipeline on one connection.
NextPose ==
    \/ Mount
    \/ Unmount
    \/ \E s \in SocketIds : SocketOpen(s)
    \/ \E s \in SocketIds, code \in CloseCodes : SocketClose(s, code)
    \/ \E s \in SocketIds, m \in Messages : SocketMessage(s, m)
    \/ \E s \in SocketIds : SocketGarbage(s)
    \/ MessageEffect
    \/ \E kind \in {"glb", "fallback"} : ModelLoaded(kind)
    \/ Frame
SpecPose == Init /\ [][NextPose]_vars

\* The transform on every pose of PoseInputs: the hat model is loaded, the
\* socket is open, a message with face_detected true and the pose has
\* arrived and its effect has run; frames are then drawn.
InitMap ==
    /\ isConnected = TRUE
    /\ isConnecting = FALSE
    /\ error = NoError
    /\ hatPose \in PoseInputs
    /\ lastMessage = [present |-> TRUE, face_detected |-> TRUE, hat |-> hatPose]
    /\ wsRef = 1
    /\ reconnectTimeoutRef = 0
    /\ reconnectAttemptsRef = 0
    /\ sockets = [s \in SocketIds |->
                    IF s = 1 THEN [readyState |-> "OPEN", wasOpen |-> TRUE,
                                   closeCalled |-> FALSE]
                    ELSE NoSocket]
    /\ timers = <<>>
    /\ mounted = "mounted"
    /\ isStreaming = FALSE
    /\ isProcessing = FALSE
    /\ faceDetected = TRUE
    /\ msgEffectPending = FALSE
    /\ loop = NoLoop
    /\ capturing = [b \in BOOLEAN |-> 0]
    /\ converting = 0
    /\ model \in {"glb", "fallback"}
    /\ group = NewGroup
    /\ frameSince = FALSE
    /\ streak = [on |-> TRUE, delays |-> <<>>]
    /\ sendFrameLog = "none"
    /\ openedFrom = NotOpened
    /\ userClosed = FALSE
    /\ owed = FALSE
    /\ isLoading = FALSE
    /\ cameraError = NoCameraError
    /\ stream = FALSE
    /\ starting = "idle"
    /\ tracks = 0
SpecMap == InitMap /\ [][Frame]_vars

\* ================================================================ claims

\* What a step did, read from the two states.
NewSockets == {s \in SocketIds : sockets[s].readyState = "NONE"
                                  /\ sockets'[s].readyState = "CONNECTING"}
TimerIdsOf(tms) == {tms[i].id : i \in 1..Len(tms)}
NewTimers == TimerIdsOf(timers') \ TimerIdsOf(timers)
TimerStep == /\ TimerIdsOf(timers') # TimerIdsOf(timers)
             /\ TimerIdsOf(timers') \subseteq TimerIdsOf(timers)
             /\ reconnectAttemptsRef' = reconnectAttemptsRef + 1
SendStep == sendFrameLog' # "none"
DisconnectStep == Unmount \/ (ToggleConnection /\ isConnected)
ExternalConnectStep == Mount \/ (ToggleConnection /\ ~isConnected)

\* C1: from the moment a tick starts capturing a frame until that frame's
\* send outcome is observed, no other tick starts a capture or a send: at
\* most one frame is being captured or awaits its ws.send at any time.
C1_AtMostOneInFlight == InFlight <= 1

\* C2: starting with the counter at 0, consecutive abnormal closes with no
\* Open in between schedule delays 3000, 6000, 12000, 24000, 48000 ms in
\* that order, and from the sixth on no timer (recorded as 0).
BackoffSchedule == <<3000, 6000, 12000, 24000, 48000>>
C2_BackoffDelays ==
    streak.on =>
        \A i \in 1..Len(streak.delays) :
            streak.delays[i] = IF i <= Len(BackoffSchedule) THEN BackoffSchedule[i] ELSE 0
\* Six abnormal closes in a row have happened.
C2_SixCloses == streak.on /\ Len(streak.delays) = 6

\* C3: a manual disconnect() leaves no reconnect timer pending, and the
\* close event of the socket it closed schedules no reconnect.
C3_DisconnectNeverReconnects ==
    [][/\ DisconnectStep => timers' = <<>>
       /\ \A s \in SocketIds :
            (sockets[s].closeCalled /\ sockets'[s].readyState = "NONE")
                => NewTimers = {}]_vars

\* C4: the attempt counter is between 0 and MAX_RECONNECT_ATTEMPTS in every
\* reachable state.
C4_CounterWithinCap == reconnectAttemptsRef \in 0..MAX_RECONNECT_ATTEMPTS

HatDisplayed == group.visible /\ group.hasModel
NoFaceMessage == ~lastMessage.present \/ ~lastMessage.face_detected
C6_HiddenWithoutFace ==
    (mounted = "mounted" /\ NoFaceMessage /\ ~msgEffectPending /\ frameSince)
        => ~HatDisplayed

\* C7: the state read from (isConnected, isConnecting, timer pending) moves
\* only along the diagram: into Open from Connecting; into Connecting from
\* Closed by a connect() from outside or from Reconnecting by its timer;
\* into Reconnecting from Open or Connecting (an abnormal close).
ChannelState(connected, connecting, tms) ==
    IF connected THEN "Open"
    ELSE IF connecting THEN "Connecting"
    ELSE IF tms # <<>> THEN "Reconnecting"
    ELSE "Closed"
C7_DefinedEdges ==
    [][LET a == ChannelState(isConnected, isConnecting, timers)
           b == ChannelState(isConnected', isConnecting', timers')
       IN  \/ a = b
           \/ b = "Closed"
           \/ b = "Open" /\ a = "Connecting"
           \/ b = "Connecting" /\ a = "Closed" /\ ExternalConnectStep
           \/ b = "Connecting" /\ a = "Reconnecting" /\ TimerStep
           \/ b = "Reconnecting" /\ a \in {"Open", "Connecting"}]_vars

\* C8: with the counter at the cap and no timer pending, a connect() from
\* outside resets the counter to 0.
C8_ConnectResetsCounter ==
    [][(ExternalConnectStep /\ reconnectAttemptsRef = MAX_RECONNECT_ATTEMPTS
            /\ timers = <<>>)
        => reconnectAttemptsRef' = 0]_vars

\* C9: a close event with code 1000 sets no timer; one with another code
\* while the counter is below the cap sets exactly one timer, of delay
\* RECONNECT_DELAY * 2^counter, kept in reconnectTimeoutRef, and sets the
\* reconnecting status with attempt counter + 1 and that delay.
C9_CloseSchedules ==
    [][\A s \in SocketIds, code \in CloseCodes :
         SocketClose(s, code) =>
            /\ code = 1000 => timers' = timers
            /\ (code # 1000 /\ reconnectAttemptsRef < 5) =>
                 LET delay == 3000 * (2 ^ reconnectAttemptsRef) IN
                 /\ timers' = Append(timers, [id |-> reconnectTimeoutRef', delay |-> delay])
                 /\ reconnectTimeoutRef' \notin TimerIdsOf(timers)
                 /\ error' = [kind |-> "Connection lost. Reconnecting",
                              attempt |-> reconnectAttemptsRef + 1,
                              delaySec |-> delay \div 1000]]_vars
\* A third abnormal close in a row has set the 12000 ms timer.
C9_ThirdRetryScheduled ==
    /\ error = ErrReconnecting(3, 12000)
    /\ \E i \in 1..Len(timers) : timers[i] = [id |-> reconnectTimeoutRef, delay |-> 12000]

\* C10: an abnormal close with the counter at the cap sets no timer and sets
\* the terminal error; while that error is shown no socket is created by a
\* reconnect timer or by sendFrame.
C10_TerminalUntilConnect ==
    [][/\ \A s \in SocketIds, code \in CloseCodes :
            (SocketClose(s, code) /\ code # 1000
                /\ reconnectAttemptsRef >= MAX_RECONNECT_ATTEMPTS)
            => (timers' = timers /\ error' = ErrTerminal)
       /\ (error = ErrTerminal /\ NewSockets # {}) => (~TimerStep /\ ~SendStep)]_vars

\* C11: after disconnect() and until a connect() from outside, no socket is
\* created: not by a reconnect timer, not after a late close event of the
\* old socket, not by sendFrame from a tick that was already under way.
C11_ClosedUntilConnect ==
    [][(userClosed /\ NewSockets # {}) => ExternalConnectStep]_vars

\* C12: no tick starts a frame capture while the channel is not Open.
CaptureStart == \E cap \in BOOLEAN : capturing'[cap] > capturing[cap]
C12_NoCaptureUnlessOpen == [][CaptureStart => isConnected]_vars

\* C13: at most one socket created by the hook is CONNECTING or OPEN.
Connections == {s \in SocketIds : sockets[s].readyState \in {"CONNECTING", "OPEN"}}
C13_OneConnection == Cardinality(Connections) <= 1

\* C14: right after any socket's open event the counter is 0, whatever it
\* was before.
C14_OpenResetsCounter ==
    [][\A s \in SocketIds : SocketOpen(s) => reconnectAttemptsRef' = 0]_vars
\* An open event has just found the counter above 0 and left it at 0.
C14_ResetFromRetry == openedFrom > 0 /\ reconnectAttemptsRef = 0 /\ isConnected

\* C15: a malformed inbound message (text that is not JSON, or JSON with
\* face_detected true and no hat) is dropped: lastMessage keeps its value,
\* and so do faceDetected and hatPose when the message effect next runs.
Malformed(m) == m.present /\ m.face_detected /\ m.hat = NullPose
C15_MalformedDropped ==
    [][/\ \A s \in SocketIds :
            SocketGarbage(s) => UNCHANGED <<lastMessage, faceDetected, hatPose>>
       /\ \A s \in SocketIds, m \in Messages :
            (SocketMessage(s, m) /\ Malformed(m)) => lastMessage' = lastMessage
       /\ (MessageEffect /\ Malformed(lastMessage))
            => UNCHANGED <<faceDetected, hatPose>>]_vars

\* C16: an abnormal close below the cap is eventually followed by a new
\* connection attempt (a socket is created), unless disconnect() is called
\* first.
C16_EventuallyRetried == owed ~> ~owed
\* A reconnect timer has fired and its connect() has created a socket.
C16_RetryStarted ==
    /\ ~owed /\ ~userClosed
    /\ reconnectAttemptsRef = 1
    /\ wsRef # 0 /\ sockets[wsRef].readyState = "CONNECTING"

\* C17: once the sampling loop is stopped (isStreaming or isConnected has
\* become false, or the component has unmounted) the loop starts no capture.
LoopStopped == ~isStreaming \/ ~isConnected \/ mounted # "mounted"
C17_NoCaptureAfterStop == [][LoopStopped => ~CaptureStart]_vars

\* The callback has written the current pose to the group.
Applied == frameSince /\ group.hasModel /\ hatPose # NullPose /\ faceDetected

\* C18: the planar position is x' = (x - 0.5) * 4 and
\* y' = (y - 0.5) * 3 + the preset's offset, with no vertical flip; the pose
\* (0.5, 0.5, 0.05), rotation 0, scale 1 with the default preset gives
\* position (0, offset, 0.05), rotation 0, scale = the preset's multiplier,
\* visible.
C18_PlanarRemap ==
    Applied =>
        /\ group.position[1] = (hatPose.position.x - 500) * 4
        /\ group.position[2] - (hatPose.position.y - 500) * 3 \in {-200, -1000, -300}
        /\ group.visible
        /\ ( /\ hatPose.position = [x |-> 500, y |-> 500, z |-> 50]
             /\ hatPose.rotation = <<0, 0, 0>>
             /\ hatPose.scale = 1000
             /\ hatPose.modelType \in {"", "default"} )
           => /\ group.position = <<0, IF model = "glb" THEN -200 ELSE -300, 50>>
              /\ group.rotation = <<0, 0, 0>>
              /\ group.scale = 1000 * (IF model = "glb" THEN 50 ELSE 25)
\* The centre pose has been applied to the GLB model.
C18_CentreApplied ==
    /\ Applied /\ model = "glb"
    /\ hatPose.position = [x |-> 500, y |-> 500, z |-> 50]
    /\ hatPose.modelType = ""
    /\ group.position = <<0, -200, 50>>

\* C19: the depth written is max(position.z, 0): never negative, position.z
\* when that is not negative, 0 when it is.
C19_DepthClamped ==
    Applied =>
        /\ group.position[3] >= 0
        /\ hatPose.position.z >= 0 => group.position[3] = hatPose.position.z
        /\ hatPose.position.z < 0 => group.position[3] = 0
\* A pose behind the plane has been applied.
C19_NegativeDepthApplied == Applied /\ hatPose.position.z < 0 /\ group.position[3] = 0

\* The offset (thousandths) and multiplier (hundredths) a frame applied.
AppliedPreset ==
    <<group.position[2] - (hatPose.position.y - 500) * 3, group.scale \div hatPose.scale>>
SwitchPreset(modelType) ==
    IF modelType = "large_hat" THEN <<-1000, 80>>
    ELSE IF modelType = "small_hat" THEN <<-200, 2>>
    ELSE <<-200, 50>>

\* C20 as stated: the offset and multiplier are selected by modelType alone
\* from a fixed table; an absent or unrecognised modelType selects the
\* default.
C20_ByModelTypeAlone == Applied => AppliedPreset = SwitchPreset(hatPose.modelType)

\* C20 as amended: with the GLB model loaded the pair is selected by
\* modelType (large_hat, small_hat, anything else or none: the default);
\* with the fallback geometry it is (-0.3, 0.25) whatever the modelType.
C20_ByModelAndType ==
    Applied => AppliedPreset = IF model = "glb" THEN SwitchPreset(hatPose.modelType)
                               ELSE <<-300, 25>>
\* A large_hat pose has been applied to the fallback geometry.
C20_FallbackIgnoresType ==
    /\ Applied /\ model = "fallback" /\ hatPose.modelType = "large_hat"
    /\ AppliedPreset = <<-300, 25>>

\* C21: the transform is a function of the pose applied: each axis of the
\* rotation is that axis of the pose times 0.8, and position, rotation and
\* scale are what the pose alone gives, whatever was applied before.
C21_PureTransform ==
    Applied =>
        /\ \A i \in 1..3 : group.rotation[i] = hatPose.rotation[i] * 8
        /\ group.position[1] = (hatPose.position.x - 500) * 4
        /\ group.position[2] = (hatPose.position.y - 500) * 3 + AppliedPreset[1]
        /\ group.position[3] = (IF hatPose.position.z > 0 THEN hatPose.position.z ELSE 0)
        /\ group.scale = hatPose.scale * AppliedPreset[2]
        /\ AppliedPreset = IF model = "glb" THEN SwitchPreset(hatPose.modelType)
                           ELSE <<-300, 25>>
\* The rotated pose has been applied.
C21_RotationDamped ==
    /\ Applied
    /\ hatPose.rotation = <<100, -200, 50>>
    /\ group.rotation = <<800, -1600, 400>>

\* C22: the effect on a message with face_detected false sets faceDetected
\* to false and hatPose to null, with a hat in the message and without.
C22_NoFaceMapsToHidden ==
    [][(MessageEffect /\ ~lastMessage.face_detected)
          => (faceDetected' = FALSE /\ hatPose' = NullPose)]_vars
\* The effect has run on a message with no face and a hat.
C22_NoFaceWithHatApplied ==
    /\ lastMessage.present
    /\ ~lastMessage.face_detected
    /\ lastMessage.hat # NullPose
    /\ ~msgEffectPending
    /\ mounted = "mounted"
    /\ ~faceDetected
    /\ hatPose = NullPose

\* The DOMException names with a message of their own, and the generic texts.
SpecificNames == {"NotFoundError", "NotAllowedError", "NotReadableError",
                  "OverconstrainedError"}
IsSpecific(err) == err.dom /\ err.name \in SpecificNames
GenericTexts == {"Failed to access camera: ",
                 "An unexpected error occurred while accessing the camera"}
\* C23: when getUserMedia (or play) fails, a DOMException with one of the four
\* names sets a message no other of the four sets and that is not generic,
\* every other failure sets a generic message, and in each case isStreaming
\* is false and isLoading is false afterwards.
C23_FailureCategorised ==
    [][\A err \in CameraFailures :
          (GetUserMediaRejected(err) \/ PlayRejected(err)) =>
              /\ ~isStreaming /\ ~isStreaming'
              /\ isLoading /\ ~isLoading'
              /\ cameraError' # NoCameraError
              /\ IF IsSpecific(err)
                 THEN /\ cameraError'.text \notin GenericTexts
                      /\ \A other \in CameraFailures :
                            (IsSpecific(other) /\ other.name # err.name)
                                => cameraError' # cameraErrorFor(other)
                 ELSE cameraError'.text \in GenericTexts]_vars
\* A denied permission has been reported.
C23_DeniedReported ==
    /\ mounted = "mounted"
    /\ starting = "idle"
    /\ cameraError.text = "Camera access denied. Please allow camera permissions and refresh."
    /\ ~isLoading
    /\ ~isStreaming
    /\ ~stream

\* C24: isProcessing is true for as long as a frame's conversion to a
\* buffer, and so its ws.send, is still pending.
C24_FlagCoversSend == converting > 0 => isProcessing

\* C25: whatever captureFrameAsBlob gave, the step after it leaves
\* isProcessing false, a null or a throw starts no conversion and changes
\* nothing of the channel, and with the interval still set the guard of the
\* next tick passes when the rate limiter allows it.
C25_TickEndsClean ==
    [][\A cap \in BOOLEAN, outcome \in CaptureOutcomes :
          CaptureDone(cap, outcome) =>
              /\ ~isProcessing'
              /\ outcome # "blob" => (converting' = converting /\ UNCHANGED chanVars)
              /\ IntervalSet' => TickPasses(loop'.capProcessing, TRUE)]_vars

\* C26: lastMessage is the message delivered last that parsed (a delivery
\* sets it to that message and nothing else changes it), and faceDetected
\* and hatPose are only ever set from the lastMessage of the moment, so that
\* once the effect has run they are those of the newest message.
C26_NewestMessageWins ==
    [][/\ \A s \in SocketIds, m \in Messages : SocketMessage(s, m) => lastMessage' = m
       /\ lastMessage' # lastMessage => \E s \in SocketIds, m \in Messages : SocketMessage(s, m)
       /\ <<faceDetected, hatPose>>' # <<faceDetected, hatPose>> => MessageEffect
       /\ MessageEffect =>
             /\ faceDetected' = lastMessage.face_detected
             /\ hatPose' = (IF lastMessage.face_detected THEN lastMessage.hat ELSE NullPose)
       /\ (mounted' = "mounted" /\ lastMessage'.present /\ ~msgEffectPending') =>
             /\ faceDetected' = lastMessage'.face_detected
             /\ hatPose' \in {lastMessage'.hat, NullPose}]_vars
\* A second pose has replaced the one the group was last drawn with.
C26_SecondPoseApplied ==
    /\ mounted = "mounted"
    /\ group.hasModel
    /\ group.position[1] = 0
    /\ lastMessage.face_detected
    /\ lastMessage.hat # NullPose
    /\ lastMessage.hat.position.x = 750
    /\ ~msgEffectPending
    /\ faceDetected
    /\ hatPose = lastMessage.hat

\* C27: whenever isConnected is true, wsRef.current is a socket in OPEN
\* state; a close event of a socket that wsRef.current no longer refers to
\* leaves wsRef.current and isConnected as they are.
C27_ConnectedMeansOpen ==
    /\ isConnected => RefOpen(Ch)
    /\ [][\A s \in SocketIds, code \in CloseCodes :
            (SocketClose(s, code) /\ wsRef # s) => UNCHANGED <<wsRef, isConnected>>]_vars

\* C28: at most one reconnect timer is pending at any time, and
\* reconnectTimeoutRef.current is its id.
C28_OneTimer ==
    /\ Len(timers) <= 1
    /\ Len(timers) = 1 => reconnectTimeoutRef = timers[1].id

\* C29: isConnected and isConnecting are never both true.
C29_NotBoth == ~(isConnected /\ isConnecting)

\* C30: connect() with wsRef.current OPEN returns the hook as it found it;
\* when the reconnect callback calls it so, no socket is created, the flags
\* and the error stay, no timer is set, and the counter is the one the
\* callback had counted up before the call.
C30_ConnectWhileOpenIsNoOp ==
    /\ RefOpen(Ch) => connect(Ch) = Ch
    /\ [][\A t \in TimerIds :
            (TimerFire(t) /\ RefOpen(Ch)) =>
                /\ UNCHANGED <<sockets, wsRef, isConnected, isConnecting, error,
                               reconnectTimeoutRef>>
                /\ timers' = clearTimeout(timers, t)
                /\ reconnectAttemptsRef' = reconnectAttemptsRef + 1]_vars
\* The reconnect callback has run on an open connection.
C30_CalledWhileOpen ==
    /\ RefOpen(Ch)
    /\ isConnected
    /\ reconnectAttemptsRef > 0

\* C31: when the component unmounts while the camera is streaming, the
\* cleanup stops the tracks of the acquired stream: none is live afterwards.
C31_UnmountStopsTracks == [][(Unmount /\ isStreaming) => tracks' = 0]_vars

====
